---- MODULE Spec2Model ----
(***************************************************************************)
(* A model of twython/api.py: the Twython client's construction, its       *)
(* request pipeline (_request, request/get/post, also from two threads),   *)
(* the last-call record (get_lastfunction_header), the authorization flow  *)
(* (get_authentication_tokens, get_authorized_tokens), construct_api_url   *)
(* and the paginating generator search_gen.                                *)
(*                                                                         *)
(* Python values are tagged records, so that a value of any Python type    *)
(* can sit in one field: None, int, str (a sequence of words), list,       *)
(* dict (the fields the code reads, each a value or Absent).               *)
(***************************************************************************)
EXTENDS Integers, Sequences, FiniteSets, TLC

VARIABLES
    client,      \* the credentials and the signer __init__ gave the session
    last_call,   \* self._last_call
    result,      \* what the last operation handed to its caller
    gen,         \* the generator object made by search_gen
    exchange,    \* the calls made so far: the last one the transport answered
    handshake,   \* the last call of the authorization flow the transport answered
    threads      \* the request calls running on the client from other threads

vars == <<client, last_call, result, gen, exchange, handshake, threads>>

-----------------------------------------------------------------------------
(* Bounds of the model *)

\* pages one search_gen generator fetches in one behaviour
MaxPages == 3

-----------------------------------------------------------------------------
(* Python values *)

None == [t |-> "None"]

Absent == [t |-> "absent"]

PInt(n) == [t |-> "int", n |-> n]

PStr(words) == [t |-> "str", s |-> words]

PList(elems) == [t |-> "list", l |-> elems]

\* a dict, by the fields the code reads; other: it has some other field
PDict(errors, message, statuses, id_str, other) ==
    [t |-> "dict", errors |-> errors, message |-> message,
     statuses |-> statuses, id_str |-> id_str, other |-> other]

EmptyDict == PDict(Absent, Absent, Absent, Absent, FALSE)

\* bool(v)
Truthy(v) ==
    CASE v.t = "None" -> FALSE
      [] v.t = "int" -> v.n # 0
      [] v.t = "str" -> Len(v.s) > 0
      [] v.t = "list" -> Len(v.l) > 0
      [] v.t = "dict" -> \/ v.errors # Absent \/ v.message # Absent
                         \/ v.statuses # Absent \/ v.id_str # Absent
                         \/ v.other
      [] OTHER -> FALSE

\* d.get(key, default), d a dict
DictGet(d, key, default) ==
    LET v == CASE key = "errors" -> d.errors
               [] key = "message" -> d.message
               [] key = "statuses" -> d.statuses
               [] key = "id_str" -> d.id_str
               [] OTHER -> Absent
    IN  IF v = Absent THEN default ELSE v

\* needle is a contiguous part of hay (both sequences of words)
SubSeqOf(needle, hay) ==
    \E i \in 1..(Len(hay) - Len(needle) + 1) :
        SubSeq(hay, i, i + Len(needle) - 1) = needle

-----------------------------------------------------------------------------
(* Response bodies: the raw text, and what json.loads makes of it *)

BadAuthWords == <<"Bad", "Authentication", "data">>

DefaultMessage == PStr(<<"An", "error", "occurred", "processing", "your", "request.">>)

InvalidJsonMessage == PStr(<<"Response", "was", "not", "valid", "JSON,", "unable", "to", "decode.">>)

ErrorObj(message) == PDict(Absent, message, Absent, Absent, FALSE)

ErrorsBody(errors) == PDict(errors, Absent, Absent, Absent, FALSE)

Tweet(id_str) == PDict(Absent, Absent, Absent, id_str, TRUE)

StatusesBody(tweets) == PDict(Absent, Absent, PList(tweets), Absent, FALSE)

\* the texts a response body is drawn from
ErrorTexts ==
    { "not json", "", "{}", "[]",
      "{\"errors\":[{\"message\":\"X\"}]}",
      "{\"errors\":[{\"message\":\"Invalid or expired token.\"}]}",
      "{\"errors\":[{\"message\":\"Bad Authentication data\",\"code\":215}]}",
      "{\"errors\":\"Sorry: Bad Authentication data\"}",
      "{\"errors\":[]}",
      "{\"errors\":[5]}",
      "{\"errors\":[{\"code\":34}]}",
      "{\"errors\":null}" }

PageTexts ==
    { "{\"statuses\":[]}",
      "{\"statuses\":[{\"id_str\":\"5\"},{\"id_str\":\"3\"}]}",
      "{\"statuses\":[{\"id_str\":\"9\"}]}",
      "{\"statuses\":[{\"id_str\":\"abc\"}]}",
      "{\"statuses\":[{\"id_str\":null}]}",
      "{\"statuses\":[{\"text\":\"hi\"}]}" }

\* what the search endpoint answers with
SearchTexts == PageTexts \cup {"not json", "{}", "[]"}

\* json.loads(text): ok = FALSE is ValueError
JsonLoads(text) ==
    LET Ok(v) == [ok |-> TRUE, v |-> v]
    IN  CASE text = "{}" -> Ok(EmptyDict)
          [] text = "[]" -> Ok(PList(<<>>))
          [] text = "{\"errors\":[{\"message\":\"X\"}]}" ->
                Ok(ErrorsBody(PList(<<ErrorObj(PStr(<<"X">>))>>)))
          [] text = "{\"errors\":[{\"message\":\"Invalid or expired token.\"}]}" ->
                Ok(ErrorsBody(PList(<<ErrorObj(
                    PStr(<<"Invalid", "or", "expired", "token.">>))>>)))
          [] text = "{\"errors\":[{\"message\":\"Bad Authentication data\",\"code\":215}]}" ->
                Ok(ErrorsBody(PList(<<PDict(Absent, PStr(BadAuthWords),
                                            Absent, Absent, TRUE)>>)))
          [] text = "{\"errors\":\"Sorry: Bad Authentication data\"}" ->
                Ok(ErrorsBody(PStr(<<"Sorry:">> \o BadAuthWords)))
          [] text = "{\"errors\":[]}" -> Ok(ErrorsBody(PList(<<>>)))
          [] text = "{\"errors\":[5]}" -> Ok(ErrorsBody(PList(<<PInt(5)>>)))
          [] text = "{\"errors\":[{\"code\":34}]}" ->
                Ok(ErrorsBody(PList(<<PDict(Absent, Absent, Absent, Absent, TRUE)>>)))
          [] text = "{\"errors\":null}" -> Ok(ErrorsBody(None))
          [] text = "{\"statuses\":[]}" -> Ok(StatusesBody(<<>>))
          [] text = "{\"statuses\":[{\"id_str\":\"5\"},{\"id_str\":\"3\"}]}" ->
                Ok(StatusesBody(<<Tweet(PStr(<<"5">>)), Tweet(PStr(<<"3">>))>>))
          [] text = "{\"statuses\":[{\"id_str\":\"9\"}]}" ->
                Ok(StatusesBody(<<Tweet(PStr(<<"9">>))>>))
          [] text = "{\"statuses\":[{\"id_str\":\"abc\"}]}" ->
                Ok(StatusesBody(<<Tweet(PStr(<<"abc">>))>>))
          [] text = "{\"statuses\":[{\"id_str\":null}]}" ->
                Ok(StatusesBody(<<Tweet(None)>>))
          [] text = "{\"statuses\":[{\"text\":\"hi\"}]}" ->
                Ok(StatusesBody(<<Tweet(Absent)>>))
          [] OTHER -> [ok |-> FALSE, v |-> None]

\* int(v): ok = FALSE is the exception named by exc
IntOf(v) ==
    LET Ok(n) == [ok |-> TRUE, n |-> n, exc |-> ""]
        Fail(exc) == [ok |-> FALSE, n |-> 0, exc |-> exc]
    IN  CASE v.t = "int" -> Ok(v.n)
          [] v.t = "str" ->
                CASE v.s = <<"3">> -> Ok(3)
                  [] v.s = <<"5">> -> Ok(5)
                  [] v.s = <<"9">> -> Ok(9)
                  [] OTHER -> Fail("ValueError")
          [] OTHER -> Fail("TypeError")

-----------------------------------------------------------------------------
(* The transport: what self.client.get / post hands back *)

Statuses == {200, 201, 202, 204, 304, 305, 400, 401, 429, 500}

HeaderNames == {"retry-after", "x-rate-limit-remaining"}

NoHeaders == [n \in {} |-> None]

SomeHeaders ==
    [n \in HeaderNames |->
        IF n = "retry-after" THEN PStr(<<"30">>) ELSE PStr(<<"14">>)]

\* headers, cookies and the suffix the transport adds to the URL it reports
BareEnvelope == [headers |-> NoHeaders, cookies |-> "", suffix |-> <<>>]

FullEnvelope ==
    [headers |-> SomeHeaders, cookies |-> "guest_id=1", suffix |-> <<"?q=python">>]

Envelopes == {BareEnvelope, FullEnvelope}

Response(url, status, text, env) ==
    [status_code |-> status, content |-> text, headers |-> env.headers,
     cookies |-> env.cookies, url |-> url \o env.suffix]

\* headers.get(name)
HeaderGet(headers, name) ==
    IF name \in DOMAIN headers THEN headers[name] ELSE None

-----------------------------------------------------------------------------
(* What an operation hands to its caller *)

Return(v) ==
    [kind |-> "return", exc |-> "", msg |-> None, code |-> None,
     retry_after |-> None, value |-> v]

\* raise exc(msg, error_code=code, retry_after=retry_after)
Raise(exc, msg, code, retry_after) ==
    [kind |-> "raise", exc |-> exc, msg |-> msg, code |-> code,
     retry_after |-> retry_after, value |-> None]

\* an exception of the interpreter or of the transport, not of the library;
\* its message is the interpreter's, never one taken from the response
Escapes(exc) == Raise(exc, PStr(<<exc>>), None, None)

LibraryErrors == {"TwythonError", "TwythonAuthError", "TwythonRateLimitError"}

-----------------------------------------------------------------------------
(* Twython._request *)

\* self._last_call = {...}
Stash(api_call, response) ==
    [api_call |-> api_call, api_error |-> None, cookies |-> response.cookies,
     headers |-> response.headers, status_code |-> response.status_code,
     url |-> response.url, content |-> response.content]

\* content.json() raises AttributeError on a str, so json.loads(content) runs;
\* ValueError: json_error = True, content = {}
ParseContent(text) ==
    LET r == JsonLoads(text)
    IN  IF r.ok THEN [json_error |-> FALSE, content |-> r.v]
        ELSE [json_error |-> TRUE, content |-> EmptyDict]

\* a variant that also takes 304 for an error status
IsErrorStatus_From304(status_code) == status_code >= 304

IsErrorStatus(status_code) == status_code > 304

\* a variant that tolerates invalid JSON on 200 and 201 only
AcceptsInvalidJson_No202(status_code) == status_code \in {200, 201}

AcceptsInvalidJson(status_code) == status_code \in {200, 201, 202}

\* errors = content.get('errors', [default]); then errors[0]['message'] or errors
ErrorMessage(content) ==
    LET Ok(m) == [ok |-> TRUE, exc |-> "", msg |-> m]
        Fail(exc) == [ok |-> FALSE, exc |-> exc, msg |-> None]
    IN  IF content.t # "dict" THEN Fail("AttributeError")
        ELSE LET errors == DictGet(content, "errors",
                                   PList(<<ErrorObj(DefaultMessage)>>))
             IN  IF Truthy(errors) /\ errors.t = "list"
                 THEN LET first == errors.l[1]
                      IN  IF first.t # "dict" THEN Fail("TypeError")
                          ELSE IF first.message = Absent THEN Fail("KeyError")
                          ELSE Ok(first.message)
                 ELSE Ok(errors)

\* 'Bad Authentication data' in error_message
BadAuthIn(error_message) ==
    LET Ok(b) == [ok |-> TRUE, v |-> b]
    IN  CASE error_message.t = "str" -> Ok(SubSeqOf(BadAuthWords, error_message.s))
          [] error_message.t = "list" ->
                Ok(\E i \in 1..Len(error_message.l) :
                       error_message.l[i] = PStr(BadAuthWords))
          [] error_message.t = "dict" -> Ok(FALSE)
          [] OTHER -> [ok |-> FALSE, v |-> FALSE]

\* the class raised for an error status; ok = FALSE is the TypeError of `in`
ExceptionType(status_code, error_message) ==
    LET Ok(e) == [ok |-> TRUE, exc |-> e]
    IN  IF status_code = 429 THEN Ok("TwythonRateLimitError")
        ELSE IF status_code = 401 THEN Ok("TwythonAuthError")
        ELSE LET b == BadAuthIn(error_message)
             IN  IF ~b.ok THEN [ok |-> FALSE, exc |-> "TypeError"]
                 ELSE IF b.v THEN Ok("TwythonAuthError")
                 ELSE Ok("TwythonError")

\* the whole of _request once the transport has answered:
\* the record it leaves in self._last_call and what it hands back
Request_(api_call, response) ==
    LET Finish(stash, p, m, e) ==
            IF IsErrorStatus(response.status_code)
            THEN IF ~m.ok THEN [last_call |-> stash, out |-> Escapes(m.exc)]
                 ELSE IF ~e.ok
                 THEN [last_call |-> [stash EXCEPT !.api_error = m.msg],
                       out |-> Escapes(e.exc)]
                 ELSE [last_call |-> [stash EXCEPT !.api_error = m.msg],
                       out |-> Raise(e.exc, m.msg, PInt(response.status_code),
                                     HeaderGet(response.headers, "retry-after"))]
            ELSE IF p.json_error /\ ~AcceptsInvalidJson(response.status_code)
            THEN [last_call |-> stash,
                  out |-> Raise("TwythonError", InvalidJsonMessage, None, None)]
            ELSE [last_call |-> stash, out |-> Return(p.content)]
        Classify(stash, p, m) ==
            Finish(stash, p, m, ExceptionType(response.status_code, m.msg))
        Decode(stash, p) == Classify(stash, p, ErrorMessage(p.content))
    IN  Decode(Stash(api_call, response), ParseContent(response.content))

-----------------------------------------------------------------------------
(* Twython.request / get / post *)

ApiUrl(version) == <<"https://api.twitter.com/", version>>

Endpoints ==
    { <<"search/tweets">>,
      <<"https://", "api.twitter.com/1.1/statuses/home_timeline.json">> }

Versions == {"1.1"}

\* endpoint.startswith(prefix)
StartsWith(endpoint, prefix) == Len(endpoint) > 0 /\ endpoint[1] = prefix

\* the URL request() resolves an endpoint to
ResolveUrl(endpoint, version) ==
    IF StartsWith(endpoint, "http://") \/ StartsWith(endpoint, "https://")
    THEN endpoint
    ELSE ApiUrl(version) \o <<"/">> \o endpoint \o <<".json">>

\* what the transport does with one call: it answers, or it raises
Answer(status, text, env) ==
    [answered |-> TRUE, status |-> status, text |-> text, env |-> env]

NoAnswer == [answered |-> FALSE, status |-> 0, text |-> "", env |-> BareEnvelope]

\* every answer to a request, for the claims about one call
AllOutcomes ==
    {Answer(s, t, e) : s \in Statuses, t \in ErrorTexts, e \in Envelopes}
    \cup {NoAnswer}

\* the answers to the requests a consumer makes around a search
SomeOutcomes ==
    { Answer(200, "{}", FullEnvelope),
      Answer(204, "not json", BareEnvelope),
      Answer(401, "{\"errors\":[{\"message\":\"Invalid or expired token.\"}]}",
             BareEnvelope),
      Answer(429, "{\"errors\":[{\"message\":\"X\"}]}", FullEnvelope),
      Answer(500, "{\"errors\":\"Sorry: Bad Authentication data\"}", BareEnvelope),
      NoAnswer }

\* the answers of the search endpoint
SearchOutcomes ==
    {Answer(200, t, BareEnvelope) : t \in SearchTexts}
    \cup { Answer(429, "{}", FullEnvelope), NoAnswer }

\* a variant that sends the request once more after a 429
TransportCalls_RetryOn429(t) == IF t.answered /\ t.status = 429 THEN 2 ELSE 1

\* how often _request calls the transport for one request: func(url, ...) is
\* called once, in no loop, whatever comes back
TransportCalls(t) == 1

\* request(endpoint, ...) with the transport behaving as t: the outcome, the
\* transport calls it took and the client's state after it
Call(endpoint, version, t) ==
    LET Record(url, response, r) ==
            [out |-> r.out, last_call |-> <<r.last_call>>, sends |-> TransportCalls(t),
             exchange |-> [made |-> TRUE,
                           answered |-> <<[api_call |-> url, response |-> response,
                                           out |-> r.out]>>]]
        Receive(url, response) == Record(url, response, Request_(url, response))
        Send(url) == Receive(url, Response(url, t.status, t.text, t.env))
    IN  IF t.answered
        THEN Send(ResolveUrl(endpoint, version))
        ELSE [out |-> Escapes("ConnectionError"), last_call |-> last_call,
              sends |-> TransportCalls(t),
              exchange |-> [exchange EXCEPT !.made = TRUE]]

\* the client after a call c of request
Requested(c) ==
    /\ last_call' = c.last_call
    /\ exchange' = c.exchange
    /\ result' = [op |-> "request", arg |-> <<>>, out |-> c.out, sends |-> c.sends]
    /\ UNCHANGED <<client, gen, handshake, threads>>

Request(endpoint, version, t) == Requested(Call(endpoint, version, t))

-----------------------------------------------------------------------------
(* Twython.get_lastfunction_header *)

MustCallMessage ==
    PStr(<<"This", "function", "must", "be", "called", "after", "an", "API", "call.">>)

LookupNames == HeaderNames \cup {"x-rate-limit-reset"}

\* a variant that indexes the headers without looking whether the name is there
LastFunctionHeader_Unchecked(lc, header) ==
    IF lc = <<>>
    THEN Raise("TwythonError", MustCallMessage, None, None)
    ELSE IF header \in DOMAIN lc[1].headers
    THEN Return(lc[1].headers[header])
    ELSE Escapes("KeyError")

\* what get_lastfunction_header(header) hands back with self._last_call = lc
\* (lc is <<>> for None, <<record>> otherwise)
LastFunctionHeader(lc, header) ==
    IF lc = <<>>
    THEN Raise("TwythonError", MustCallMessage, None, None)
    ELSE IF header \in DOMAIN lc[1].headers
    THEN Return(lc[1].headers[header])
    ELSE Return(None)

GetLastFunctionHeader(header) ==
    /\ result' = [op |-> "get_lastfunction_header", arg |-> <<header>>,
                  out |-> LastFunctionHeader(last_call, header), sends |-> 0]
    /\ UNCHANGED <<client, last_call, gen, exchange, handshake, threads>>

-----------------------------------------------------------------------------
(* The authorization flow: get_authentication_tokens, get_authorized_tokens *)

PBool(b) == [t |-> "bool", b |-> b]

\* a dict by its keys, and a URL with the query urlencode made
Mapping(d) == [t |-> "mapping", d |-> d]

Url(base, query) == [t |-> "url", base |-> base, query |-> query]

EmptyMapping == [k \in {} |-> None]

\* d.get(key)
MapGet(d, key) == IF key \in DOMAIN d THEN d[key] ELSE None

RequestTokenUrl == <<"https://api.twitter.com/", "oauth/request_token">>

AccessTokenUrl == <<"https://api.twitter.com/", "oauth/access_token">>

AuthenticateUrl == <<"https://api.twitter.com/", "oauth/authenticate">>

DecodeRequestMessage == PStr(<<"Unable", "to", "decode", "request", "tokens.">>)

DecodeAuthorizedMessage == PStr(<<"Unable", "to", "decode", "authorized", "tokens.">>)

\* what the token endpoints answer with
TokenTexts ==
    { "", "Failed to validate oauth signature and token",
      "oauth_token=T&oauth_token_secret=S&oauth_callback_confirmed=true",
      "oauth_token=T&oauth_token_secret=S&oauth_callback_confirmed=false",
      "oauth_token=T&oauth_token_secret=S",
      "oauth_token_secret=S&oauth_callback_confirmed=true" }

TokenStatuses == {200, 201, 401, 500}

TokenOutcomes ==
    {Answer(s, t, BareEnvelope) : s \in TokenStatuses, t \in TokenTexts}
    \cup {NoAnswer}

\* dict(parse_qsl(text)): a field without "=" is dropped
ParseQsl(text) ==
    LET token == "oauth_token" :> PStr(<<"T">>)
        secret == "oauth_token_secret" :> PStr(<<"S">>)
        confirmed(v) == "oauth_callback_confirmed" :> PStr(<<v>>)
    IN  CASE text = "oauth_token=T&oauth_token_secret=S&oauth_callback_confirmed=true" ->
                token @@ secret @@ confirmed("true")
          [] text = "oauth_token=T&oauth_token_secret=S&oauth_callback_confirmed=false" ->
                token @@ secret @@ confirmed("false")
          [] text = "oauth_token=T&oauth_token_secret=S" -> token @@ secret
          [] text = "oauth_token_secret=S&oauth_callback_confirmed=true" ->
                secret @@ confirmed("true")
          [] OTHER -> EmptyMapping

\* str(v), as urlencode and encode take it
Str(v) ==
    CASE v.t = "bool" -> PStr(<<IF v.b THEN "True" ELSE "False">>)
      [] OTHER -> v

\* quote_plus(s)
QuotePlus(s) ==
    CASE s = PStr(<<"https://example.com/cb">>) ->
            PStr(<<"https%3A%2F%2Fexample.com%2Fcb">>)
      [] s = PStr(<<"a b">>) -> PStr(<<"a+b">>)
      [] OTHER -> s

\* urlencode(params): the pairs key=value, in the order the keys were set
UrlEncode(params) ==
    [i \in 1..Len(params) |-> <<params[i][1], QuotePlus(Str(params[i][2]))>>]

\* what the callers pass to get_authentication_tokens
CallbackUrls == {None, PStr(<<"https://example.com/cb">>)}

ScreenNames == {PStr(<<>>), PStr(<<"ryanmcgrath">>)}

\* callback_url or self.callback_url; ok = FALSE is the AttributeError of an
\* attribute the client does not have
CallbackOrOwn(c, callback_url) ==
    IF Truthy(callback_url) THEN [ok |-> TRUE, v |-> callback_url]
    ELSE IF c.callback_url = Absent THEN [ok |-> FALSE, v |-> None]
    ELSE [ok |-> TRUE, v |-> c.callback_url]

\* request_args
RequestArgs(callback_url) ==
    IF Truthy(callback_url) THEN <<<<"oauth_callback", callback_url>>>> ELSE <<>>

\* a variant that sends force_login and screen_name whether asked to or not
AuthUrlParams_AlwaysForce(c, callback_url, force_login, screen_name, request_tokens) ==
    IF "oauth_token" \notin DOMAIN request_tokens
    THEN [ok |-> FALSE, exc |-> "KeyError", params |-> <<>>]
    ELSE IF /\ Truthy(callback_url)
            /\ MapGet(request_tokens, "oauth_callback_confirmed") # PStr(<<"true">>)
    THEN [ok |-> FALSE, exc |-> "AttributeError", params |-> <<>>]
    ELSE [ok |-> TRUE, exc |-> "",
          params |-> << <<"oauth_token", request_tokens["oauth_token"]>>,
                        <<"force_login", PBool(force_login)>>,
                        <<"screen_name", screen_name>> >>]

\* auth_url_params, from the token mapping of a 200 response
AuthUrlParams(c, callback_url, force_login, screen_name, request_tokens) ==
    LET Ok(p) == [ok |-> TRUE, exc |-> "", params |-> p]
        Fail(exc) == [ok |-> FALSE, exc |-> exc, params |-> <<>>]
        oauth_callback_confirmed ==
            MapGet(request_tokens, "oauth_callback_confirmed") = PStr(<<"true">>)
        Forced(p) ==
            IF force_login
            THEN p \o << <<"force_login", PBool(force_login)>>,
                         <<"screen_name", screen_name>> >>
            ELSE p
        Old(p) ==
            IF Truthy(callback_url) /\ ~oauth_callback_confirmed
            THEN IF c.callback_url = Absent THEN Fail("AttributeError")
                 ELSE Ok(Append(p, <<"oauth_callback", c.callback_url>>))
            ELSE Ok(p)
    IN  IF "oauth_token" \notin DOMAIN request_tokens THEN Fail("KeyError")
        ELSE Old(Forced(<< <<"oauth_token", request_tokens["oauth_token"]>> >>))

\* get_authentication_tokens(callback_url, force_login, screen_name) on the
\* client c with the transport behaving as t: the outcome, the transport
\* calls it took and the last answered call of the flow after it
AuthenticationTokens(c, callback_url, force_login, screen_name, t) ==
    LET Built(tokens, a) ==
            IF ~a.ok THEN Escapes(a.exc)
            ELSE Return(Mapping(("auth_url" :> Url(AuthenticateUrl, UrlEncode(a.params)))
                                @@ tokens))
        Decoded(cb, tokens) ==
            IF tokens = EmptyMapping
            THEN Raise("TwythonError", DecodeRequestMessage, None, None)
            ELSE Built(tokens, AuthUrlParams(c, cb, force_login, screen_name, tokens))
        Received(cb, response) ==
            IF response.status_code = 401
            THEN Raise("TwythonAuthError", PStr(<<response.content>>),
                       PInt(response.status_code), None)
            ELSE IF response.status_code # 200
            THEN Raise("TwythonError", PStr(<<response.content>>),
                       PInt(response.status_code), None)
            ELSE Decoded(cb, ParseQsl(response.content))
        Answered_(cb, params, response) ==
            [out |-> Received(cb, response), sends |-> 1,
             handshake |-> [made |-> TRUE,
                            answered |-> <<[op |-> "get_authentication_tokens",
                                            arg |-> <<callback_url, force_login,
                                                      screen_name>>,
                                            url |-> RequestTokenUrl, params |-> params,
                                            response |-> response,
                                            out |-> Received(cb, response)]>>]]
        Sent(cb, params) ==
            IF t.answered
            THEN Answered_(cb, params, Response(RequestTokenUrl, t.status, t.text, t.env))
            ELSE [out |-> Escapes("ConnectionError"), sends |-> 1,
                  handshake |-> [handshake EXCEPT !.made = TRUE]]
        Started(cb) ==
            IF ~cb.ok
            THEN [out |-> Escapes("AttributeError"), sends |-> 0, handshake |-> handshake]
            ELSE Sent(cb.v, RequestArgs(cb.v))
    IN  Started(CallbackOrOwn(c, callback_url))

\* the client after a call a of get_authentication_tokens
Authenticated(callback_url, force_login, screen_name, a) ==
    /\ result' = [op |-> "get_authentication_tokens",
                  arg |-> <<callback_url, force_login, screen_name>>,
                  out |-> a.out, sends |-> a.sends]
    /\ handshake' = a.handshake
    /\ UNCHANGED <<client, last_call, gen, exchange, threads>>

GetAuthenticationTokens(callback_url, force_login, screen_name, t) ==
    Authenticated(callback_url, force_login, screen_name,
                  AuthenticationTokens(client, callback_url, force_login,
                                       screen_name, t))

Verifiers == {PStr(<<"1234567">>)}

\* get_authorized_tokens(oauth_verifier) with the transport behaving as t;
\* the status of the response is not looked at
AuthorizedTokens(oauth_verifier, t) ==
    LET Decoded(tokens) ==
            IF tokens = EmptyMapping
            THEN Raise("TwythonError", DecodeAuthorizedMessage, None, None)
            ELSE Return(Mapping(tokens))
        Answered_(response) ==
            [out |-> Decoded(ParseQsl(response.content)), sends |-> 1,
             handshake |-> [made |-> TRUE,
                            answered |-> <<[op |-> "get_authorized_tokens",
                                            arg |-> <<oauth_verifier>>,
                                            url |-> AccessTokenUrl,
                                            params |-> <<<<"oauth_verifier", oauth_verifier>>>>,
                                            response |-> response,
                                            out |-> Decoded(ParseQsl(response.content))]>>]]
    IN  IF t.answered
        THEN Answered_(Response(AccessTokenUrl, t.status, t.text, t.env))
        ELSE [out |-> Escapes("ConnectionError"), sends |-> 1,
              handshake |-> [handshake EXCEPT !.made = TRUE]]

\* a variant that keeps the response of the access-token endpoint as the
\* record of the last call
Authorized_Stashes(oauth_verifier, a) ==
    /\ result' = [op |-> "get_authorized_tokens", arg |-> <<oauth_verifier>>,
                  out |-> a.out, sends |-> a.sends]
    /\ handshake' = a.handshake
    /\ last_call' = IF a.handshake.answered # <<>>
                    THEN <<Stash(AccessTokenUrl, a.handshake.answered[1].response)>>
                    ELSE last_call
    /\ UNCHANGED <<client, gen, exchange, threads>>

\* the client after a call a of get_authorized_tokens
Authorized(oauth_verifier, a) ==
    /\ result' = [op |-> "get_authorized_tokens", arg |-> <<oauth_verifier>>,
                  out |-> a.out, sends |-> a.sends]
    /\ handshake' = a.handshake
    /\ UNCHANGED <<client, last_call, gen, exchange, threads>>

GetAuthorizedTokens(oauth_verifier, t) ==
    Authorized(oauth_verifier, AuthorizedTokens(oauth_verifier, t))

-----------------------------------------------------------------------------
(* Twython.construct_api_url *)

\* _transparent_params on one value: a boolean becomes "true" or "false"
TransparentParam(v) ==
    CASE v.t = "bool" -> PStr(<<IF v.b THEN "true" ELSE "false">>)
      [] OTHER -> v

\* the parameters a caller passes, as pairs
UrlParams ==
    { <<>>,
      << <<"q", PStr(<<"python">>)>>, <<"result_type", PStr(<<"popular">>)>> >>,
      << <<"q", PStr(<<"a b">>)>>, <<"include_entities", PBool(TRUE)>> >> }

\* api_url?k=v&...: each value through _transparent_params, encode, quote_plus
ApiUrlWith(api_url, params) ==
    Url(api_url,
        [i \in 1..Len(params) |->
            <<params[i][1], QuotePlus(Str(TransparentParam(params[i][2])))>>])

ConstructApiUrl(api_url, params) ==
    /\ result' = [op |-> "construct_api_url", arg |-> <<api_url, params>>,
                  out |-> Return(ApiUrlWith(api_url, params)), sends |-> 0]
    /\ UNCHANGED <<client, last_call, gen, exchange, handshake, threads>>

-----------------------------------------------------------------------------
(* Twython.search_gen *)

PageErrorMessage ==
    PStr(<<"Unable", "to", "generate", "next", "page", "of", "search", "results,",
           "page", "is", "not", "a", "number.">>)

\* the since_id values a caller passes to search_gen (Absent: none)
CallerSinceIds == {Absent, PInt(2)}

\* the generator ran to a yield
Yield(tweet) ==
    [kind |-> "yield", exc |-> "", msg |-> None, code |-> None,
     retry_after |-> None, value |-> tweet]

\* next() found the generator finished: StopIteration reaches the consumer
Stop ==
    [kind |-> "stop", exc |-> "", msg |-> None, code |-> None,
     retry_after |-> None, value |-> None]

\* st: where the generator stands; since: params['since_id'] of the running
\* frame; page, pos: content['statuses'] of that frame and how many of its
\* tweets were yielded; given, pinned, sent, pages, yielded: the history (the
\* since_id the caller passed and whether it passed one, the since_id of each
\* search call, the content each search returned, the tweets yielded)
NoGen ==
    [st |-> "none", since |-> Absent, given |-> Absent, pinned |-> FALSE,
     page |-> <<>>, pos |-> 0,
     pages |-> <<>>, sent |-> <<>>, yielded |-> <<>>]

\* a variant that also takes a page of one tweet for the end
NoStatuses_OneIsNone(content) ==
    \/ ~Truthy(DictGet(content, "statuses", None))
    \/ Len(DictGet(content, "statuses", None).l) < 2

\* not content.get('statuses')
NoStatuses(content) == ~Truthy(DictGet(content, "statuses", None))

\* a variant that walks the page from its end
NextTweet_Reversed(page, pos) == page[Len(page) - pos]

\* the tweet the loop over content['statuses'] yields next
NextTweet(page, pos) == page[pos + 1]

\* a variant that computes since_id anew after every page
NextSinceId_Recomputes(since, page) ==
    IF page[1].t # "dict"
    THEN [ok |-> FALSE, since |-> since,
          out |-> Raise("TwythonError", PageErrorMessage, None, None)]
    ELSE IF page[1].id_str = Absent
    THEN [ok |-> FALSE, since |-> since, out |-> Escapes("KeyError")]
    ELSE IF IntOf(page[1].id_str).ok
    THEN [ok |-> TRUE, since |-> PInt(IntOf(page[1].id_str).n + 1), out |-> Stop]
    ELSE [ok |-> FALSE, since |-> since,
          out |-> Raise("TwythonError", PageErrorMessage, None, None)]

\* params['since_id'] for the next page, from the page just yielded;
\* ok = FALSE: the generator ends with out
NextSinceId(since, page) ==
    IF since # Absent THEN [ok |-> TRUE, since |-> since, out |-> Stop]
    ELSE IF page[1].t # "dict"
    THEN [ok |-> FALSE, since |-> since,
          out |-> Raise("TwythonError", PageErrorMessage, None, None)]
    ELSE IF page[1].id_str = Absent
    THEN [ok |-> FALSE, since |-> since, out |-> Escapes("KeyError")]
    ELSE LET i == IntOf(page[1].id_str)
         IN  IF i.ok THEN [ok |-> TRUE, since |-> PInt(i.n + 1), out |-> Stop]
             ELSE [ok |-> FALSE, since |-> since,
                   out |-> Raise("TwythonError", PageErrorMessage, None, None)]

\* the endpoint self.search asks, through self.get
SearchEndpoint == <<"search/tweets">>

\* the code of search_gen from the answer c of self.search to the first
\* yield, with g the generator that made the call
Fetched(g, c) ==
    /\ last_call' = c.last_call
    /\ exchange' = c.exchange
    /\ UNCHANGED <<client, handshake, threads>>
    /\ IF c.out.kind = "raise"
       THEN /\ gen' = [g EXCEPT !.st = "failed"]
            /\ result' = [op |-> "next", arg |-> <<>>, out |-> c.out, sends |-> c.sends]
       ELSE IF c.out.value.t # "dict"
       THEN /\ gen' = [g EXCEPT !.st = "failed"]
            /\ result' = [op |-> "next", arg |-> <<>>, out |-> Escapes("AttributeError"),
                          sends |-> c.sends]
       ELSE IF NoStatuses(c.out.value)
       THEN /\ gen' = [g EXCEPT !.st = "done", !.page = <<>>, !.pos = 0,
                                !.pages = Append(g.pages, c.out.value)]
            /\ result' = [op |-> "next", arg |-> <<>>, out |-> Stop, sends |-> c.sends]
       ELSE /\ gen' = [g EXCEPT
                          !.st = "suspended", !.page = c.out.value.statuses.l,
                          !.pos = 1,
                          !.pages = Append(g.pages, c.out.value),
                          !.yielded = Append(g.yielded,
                                             NextTweet(c.out.value.statuses.l, 0))]
            /\ result' = [op |-> "next", arg |-> <<>>,
                          out |-> Yield(NextTweet(c.out.value.statuses.l, 0)),
                          sends |-> c.sends]

\* content = self.search(q=search_query, **params) with since_id = since,
\* and the code up to the first yield
Fetch(since) ==
    /\ Len(gen.sent) < MaxPages
    /\ \E t \in SearchOutcomes :
          Fetched([gen EXCEPT !.since = since, !.sent = Append(gen.sent, since)],
                  Call(SearchEndpoint, "1.1", t))

\* a variant that fetches the first page when the generator is made
SearchGen_Eager(since_id) ==
    /\ gen.st = "none"
    /\ \E t \in SearchOutcomes :
          Fetched([NoGen EXCEPT !.since = since_id, !.given = since_id,
                                !.pinned = (since_id # Absent),
                                !.sent = <<since_id>>],
                  Call(SearchEndpoint, "1.1", t))

\* search_gen(search_query, **params): the generator object; no code of the
\* body runs until the first next()
SearchGen(since_id) ==
    /\ gen.st = "none"
    /\ gen' = [NoGen EXCEPT !.st = "created", !.since = since_id,
                            !.given = since_id, !.pinned = (since_id # Absent)]
    /\ result' = [op |-> "search_gen", arg |-> <<>>, out |-> Return(None), sends |-> 0]
    /\ UNCHANGED <<client, last_call, exchange, handshake, threads>>

\* next() on a generator that has not started: the first page is fetched
NextFirst ==
    /\ gen.st = "created"
    /\ Fetch(gen.since)

\* next() while tweets of the current page are left
NextYield ==
    /\ gen.st = "suspended"
    /\ gen.pos < Len(gen.page)
    /\ gen' = [gen EXCEPT !.pos = gen.pos + 1,
                          !.yielded = Append(gen.yielded, NextTweet(gen.page, gen.pos))]
    /\ result' = [op |-> "next", arg |-> <<>>,
                  out |-> Yield(NextTweet(gen.page, gen.pos)), sends |-> 0]
    /\ UNCHANGED <<client, last_call, exchange, handshake, threads>>

\* the step past the end of a page, with n what was settled for since_id:
\* the recursive search_gen fetches the next page, or the generator fails
TurnPage(n) ==
    IF n.ok
    THEN Fetch(n.since)
    ELSE /\ gen' = [gen EXCEPT !.st = "failed"]
         /\ result' = [op |-> "next", arg |-> <<>>, out |-> n.out, sends |-> 0]
         /\ UNCHANGED <<client, last_call, exchange, handshake, threads>>

\* next() after the last tweet of a page
NextPage ==
    /\ gen.st = "suspended"
    /\ gen.pos = Len(gen.page)
    /\ TurnPage(NextSinceId(gen.since, gen.page))

\* next() on a generator that has ended or failed
NextExhausted ==
    /\ gen.st \in {"done", "failed"}
    /\ result' = [op |-> "next", arg |-> <<>>, out |-> Stop, sends |-> 0]
    /\ UNCHANGED <<client, last_call, gen, exchange, handshake, threads>>

-----------------------------------------------------------------------------
(* Twython.__init__ *)

\* the values a caller passes for each credential (None: not passed)
AppKeys == {None, PStr(<<"APP_KEY">>)}

AppSecrets == {None, PStr(<<"APP_SECRET">>)}

OAuthTokens == {None, PStr(<<"OAUTH_TOKEN">>)}

OAuthTokenSecrets == {None, PStr(<<"OAUTH_TOKEN_SECRET">>)}

\* OAuth1(client_key, client_secret[, resource_owner_key, resource_owner_secret])
OAuth1(client_key, client_secret, resource_owner_key, resource_owner_secret) ==
    [t |-> "OAuth1", client_key |-> client_key, client_secret |-> client_secret,
     resource_owner_key |-> resource_owner_key,
     resource_owner_secret |-> resource_owner_secret]

\* a variant that does not look at the token secret before it signs for the
\* application alone
Signer_IgnoresTokenSecret(app_key, app_secret, oauth_token, oauth_token_secret) ==
    IF /\ app_key # None /\ app_secret # None
       /\ oauth_token # None /\ oauth_token_secret # None
    THEN OAuth1(app_key, app_secret, oauth_token, oauth_token_secret)
    ELSE IF app_key # None /\ app_secret # None /\ oauth_token = None
    THEN OAuth1(app_key, app_secret, None, None)
    ELSE None

\* auth, as the two tests of __init__ leave it: the second assignment wins,
\* and the two conditions exclude each other
Signer(app_key, app_secret, oauth_token, oauth_token_secret) ==
    IF /\ app_key # None /\ app_secret # None
       /\ oauth_token # None /\ oauth_token_secret # None
    THEN OAuth1(app_key, app_secret, oauth_token, oauth_token_secret)
    ELSE IF /\ app_key # None /\ app_secret # None
            /\ oauth_token = None /\ oauth_token_secret = None
    THEN OAuth1(app_key, app_secret, None, None)
    ELSE None

\* the attributes __init__ sets that the operations below read; callback_url
\* is an attribute get_authentication_tokens reads and __init__ does not set
Construct(app_key, app_secret, oauth_token, oauth_token_secret) ==
    [app_key |-> app_key, app_secret |-> app_secret, oauth_token |-> oauth_token,
     oauth_token_secret |-> oauth_token_secret,
     auth |-> Signer(app_key, app_secret, oauth_token, oauth_token_secret),
     callback_url |-> Absent]

ThreadIds == {1, 2}

\* a thread that has not called request yet
IdleThread ==
    [pc |-> "idle", api_call |-> <<>>, response |-> <<>>, out |-> <<>>]

\* the client Twython(app_key, app_secret, oauth_token, oauth_token_secret)
\* makes
Constructed(app_key, app_secret, oauth_token, oauth_token_secret) ==
    /\ client = Construct(app_key, app_secret, oauth_token, oauth_token_secret)
    /\ last_call = <<>>
    /\ result = [op |-> "__init__", arg |-> <<>>, out |-> Return(None), sends |-> 0]
    /\ gen = NoGen
    /\ exchange = [made |-> FALSE, answered |-> <<>>]
    /\ handshake = [made |-> FALSE, answered |-> <<>>]
    /\ threads = [i \in ThreadIds |-> IdleThread]

-----------------------------------------------------------------------------
(* Twython._request called from two threads on one client: each thread's  *)
(* steps between the places where it reads or writes self._last_call      *)

\* self._last_call['api_error'] = error_message: whether the call gets that
\* far, and the message it writes
ApiErrorWrite(response) ==
    LET m == ErrorMessage(ParseContent(response.content).content)
    IN  [writes |-> IsErrorStatus(response.status_code) /\ m.ok, msg |-> m.msg]

\* thread i calls request(endpoint): the URL is resolved and the transport
\* answers, or raises
ThreadSend(i, endpoint, version, t) ==
    /\ threads[i].pc = "idle"
    /\ threads' =
          [threads EXCEPT ![i] =
              IF t.answered
              THEN [pc |-> "received", api_call |-> ResolveUrl(endpoint, version),
                    response |-> <<Response(ResolveUrl(endpoint, version),
                                            t.status, t.text, t.env)>>,
                    out |-> <<>>]
              ELSE [pc |-> "done", api_call |-> ResolveUrl(endpoint, version),
                    response |-> <<>>, out |-> <<Escapes("ConnectionError")>>]]
    /\ UNCHANGED <<client, last_call, result, gen, exchange, handshake>>

\* thread i assigns the stash of its response to self._last_call
ThreadStash(i) ==
    /\ threads[i].pc = "received"
    /\ last_call' = <<Stash(threads[i].api_call, threads[i].response[1])>>
    /\ threads' = [threads EXCEPT ![i].pc = "stashed"]
    /\ UNCHANGED <<client, result, gen, exchange, handshake>>

\* the rest of _request in thread i, with w its write of api_error: the
\* write goes to the record self._last_call holds at that moment
ThreadFinished(i, w) ==
    /\ last_call' = IF w.writes
                    THEN <<[last_call[1] EXCEPT !.api_error = w.msg]>>
                    ELSE last_call
    /\ threads' = [threads EXCEPT
                      ![i].pc = "done",
                      ![i].out = <<Request_(threads[i].api_call,
                                            threads[i].response[1]).out>>]
    /\ UNCHANGED <<client, result, gen, exchange, handshake>>

ThreadFinish(i) ==
    /\ threads[i].pc = "stashed"
    /\ ThreadFinished(i, ApiErrorWrite(threads[i].response[1]))

ConcurrentNext ==
    \E i \in ThreadIds :
        \/ \E e \in Endpoints, v \in Versions, t \in SomeOutcomes :
              ThreadSend(i, e, v, t)
        \/ ThreadStash(i)
        \/ ThreadFinish(i)

-----------------------------------------------------------------------------
(* The client after Twython.__init__, and its operations *)

\* Twython(APP_KEY, APP_SECRET, OAUTH_TOKEN, OAUTH_TOKEN_SECRET)
Init ==
    Constructed(PStr(<<"APP_KEY">>), PStr(<<"APP_SECRET">>),
                PStr(<<"OAUTH_TOKEN">>), PStr(<<"OAUTH_TOKEN_SECRET">>))

Next ==
    \/ \E e \in Endpoints, v \in Versions, t \in SomeOutcomes : Request(e, v, t)
    \/ \E h \in LookupNames : GetLastFunctionHeader(h)
    \/ \E s \in CallerSinceIds : SearchGen(s)
    \/ NextFirst
    \/ NextYield
    \/ NextPage
    \/ NextExhausted

Spec == Init /\ [][Next]_vars

\* one client with two threads, each making one request
ConcurrentSpec == Init /\ [][ConcurrentNext]_vars

\* a client running the authorization flow, over every answer of the token
\* endpoints
AuthNext ==
    \/ \E cb \in CallbackUrls, fl \in BOOLEAN, sn \in ScreenNames, t \in TokenOutcomes :
          GetAuthenticationTokens(cb, fl, sn, t)
    \/ \E v \in Verifiers, t \in TokenOutcomes : GetAuthorizedTokens(v, t)
    \/ \E h \in LookupNames : GetLastFunctionHeader(h)

AuthSpec == Init /\ [][AuthNext]_vars

\* the answers of the token endpoints to a client that also makes requests
FewTokenOutcomes ==
    { Answer(200, "oauth_token=T&oauth_token_secret=S&oauth_callback_confirmed=true",
             BareEnvelope),
      Answer(200, "", BareEnvelope),
      Answer(401, "Failed to validate oauth signature and token", BareEnvelope),
      NoAnswer }

\* a client made with any of the credentials, running the authorization
\* flow, building URLs, making requests and reading headers
ClientInit ==
    \E k \in AppKeys, s \in AppSecrets, o \in OAuthTokens, os \in OAuthTokenSecrets :
        Constructed(k, s, o, os)

ClientNext ==
    \/ \E t \in SomeOutcomes : Request(SearchEndpoint, "1.1", t)
    \/ \E h \in LookupNames : GetLastFunctionHeader(h)
    \/ \E cb \in CallbackUrls, fl \in BOOLEAN, t \in FewTokenOutcomes :
          GetAuthenticationTokens(cb, fl, PStr(<<"ryanmcgrath">>), t)
    \/ \E v \in Verifiers, t \in FewTokenOutcomes : GetAuthorizedTokens(v, t)
    \/ \E p \in UrlParams : ConstructApiUrl(ResolveUrl(SearchEndpoint, "1.1"), p)

ClientSpec == ClientInit /\ [][ClientNext]_vars

\* one client making requests and reading headers, over every answer
RequestNext ==
    \/ \E e \in Endpoints, v \in Versions, t \in AllOutcomes : Request(e, v, t)
    \/ \E h \in LookupNames : GetLastFunctionHeader(h)

RequestSpec == Init /\ [][RequestNext]_vars

-----------------------------------------------------------------------------
(* The last call the transport answered, as the properties below see it *)

Answered == exchange.answered # <<>>

LastApiCall == exchange.answered[1].api_call

LastResponse == exchange.answered[1].response

LastOut == exchange.answered[1].out

LastStatus == LastResponse.status_code

LastParses == JsonLoads(LastResponse.content).ok

Failed(out) == out.kind = "raise"

FailedWith(out, exc) == out.kind = "raise" /\ out.exc = exc

-----------------------------------------------------------------------------
(* C1 *)

\* C1, as stated: a call answered with a status <= 304 returns a value and
\* raises nothing, whatever the body.
C1_NeverRaisesUpTo304 ==
    (Answered /\ LastStatus <= 304) => LastOut.kind = "return"

\* C1, amended: a call answered with a status <= 304 returns a value exactly
\* when the body is valid JSON (of any shape) or the status is 200, 201 or
\* 202; otherwise it fails, and with the library's plain TwythonError.
C1_ReturnsUpTo304UnlessInvalidJson ==
    (Answered /\ LastStatus <= 304) =>
        /\ LastOut.kind = "return" <=> (LastParses \/ LastStatus \in {200, 201, 202})
        /\ LastOut.kind # "return" => FailedWith(LastOut, "TwythonError")

\* a 304 with a JSON body that is no object came back as a value
C1_Witness ==
    /\ Answered
    /\ LastStatus = 304
    /\ LastResponse.content = "[]"
    /\ LastOut = Return(PList(<<>>))

-----------------------------------------------------------------------------
(* C2 *)

MentionsBadAuth(msg) == msg.t = "str" /\ SubSeqOf(BadAuthWords, msg.s)

\* C2: a call answered with a status > 304 fails with one of the library's
\* three errors, carrying the status code: TwythonRateLimitError for 429,
\* else TwythonAuthError for 401 or a message containing "Bad Authentication
\* data", else TwythonError.
C2_ErrorClassByStatus ==
    (Answered /\ LastStatus > 304) =>
        /\ Failed(LastOut)
        /\ LastOut.code = PInt(LastStatus)
        /\ LastOut.exc =
              IF LastStatus = 429 THEN "TwythonRateLimitError"
              ELSE IF LastStatus = 401 \/ MentionsBadAuth(LastOut.msg)
              THEN "TwythonAuthError"
              ELSE "TwythonError"

-----------------------------------------------------------------------------
(* C3 *)

\* C3: a call answered with 429 fails with TwythonRateLimitError whose
\* retry_after is the retry-after header of the response, None without one,
\* whatever the body.
C3_RateLimitCarriesRetryAfter ==
    (Answered /\ LastStatus = 429) =>
        /\ FailedWith(LastOut, "TwythonRateLimitError")
        /\ LastOut.retry_after =
              IF "retry-after" \in DOMAIN LastResponse.headers
              THEN LastResponse.headers["retry-after"]
              ELSE None

-----------------------------------------------------------------------------
(* C4 *)

\* the message C4 names for a body
ClaimedMessage(text) ==
    LET p == JsonLoads(text)
    IN  IF ~p.ok THEN DefaultMessage
        ELSE IF p.v.t # "dict" THEN DefaultMessage
        ELSE IF p.v.errors = Absent THEN DefaultMessage
        ELSE IF p.v.errors.t = "list" /\ Len(p.v.errors.l) > 0
        THEN IF p.v.errors.l[1].t = "dict" /\ p.v.errors.l[1].message # Absent
             THEN p.v.errors.l[1].message
             ELSE None
        ELSE p.v.errors

\* C4: a call answered with a status > 304 fails with a library error whose
\* message is errors[0].message for a non-empty errors list, the errors value
\* itself when it is anything else, and the default message when the body
\* has no errors field or is not JSON.
C4_MessageFromErrors ==
    (Answered /\ LastStatus > 304) =>
        /\ Failed(LastOut)
        /\ LastOut.exc \in LibraryErrors
        /\ LastOut.msg = ClaimedMessage(LastResponse.content)

-----------------------------------------------------------------------------
(* C5 *)

\* C5: a call answered with a status <= 304 and a body that is not JSON
\* returns the empty mapping on 200, 201 and 202, and on any other status
\* fails with the plain TwythonError saying the response was not valid JSON.
C5_InvalidJsonUpTo304 ==
    (Answered /\ LastStatus <= 304 /\ ~LastParses) =>
        IF LastStatus \in {200, 201, 202}
        THEN LastOut = Return(EmptyDict)
        ELSE LastOut = Raise("TwythonError", InvalidJsonMessage, None, None)

\* both cases happened: a 202 and a 204, each with a body that is not JSON
C5_Witness ==
    /\ Answered
    /\ LastResponse.content = "not json"
    /\ \/ LastStatus = 202 /\ LastOut = Return(EmptyDict)
       \/ LastStatus = 204 /\ FailedWith(LastOut, "TwythonError")

-----------------------------------------------------------------------------
(* C6 *)

\* C6: self._last_call is None until a call is answered, and from then on it
\* is the record of the last answered call: its api_call, url, status code,
\* headers, cookies and text, and as api_error the message of the error that
\* call raised, None if it raised none.
C6_LastCallDescribesLastAnsweredCall ==
    /\ (last_call = <<>>) <=> ~Answered
    /\ Answered =>
          /\ last_call[1].api_call = LastApiCall
          /\ last_call[1].url = LastResponse.url
          /\ last_call[1].status_code = LastStatus
          /\ last_call[1].headers = LastResponse.headers
          /\ last_call[1].cookies = LastResponse.cookies
          /\ last_call[1].content = LastResponse.content
          /\ last_call[1].api_error = IF Failed(LastOut) THEN LastOut.msg ELSE None

-----------------------------------------------------------------------------
(* C7 *)

HeaderAsked == result.op = "get_lastfunction_header"

\* C7, as stated: get_lastfunction_header fails exactly when no call has
\* been made on the client.
C7_FailsIffNoCallMade ==
    HeaderAsked => (Failed(result.out) <=> ~exchange.made)

\* C7, amended: get_lastfunction_header fails, with TwythonError, exactly
\* when no request/get/post call has been answered yet; after an answered
\* call it returns the named header of the last answered call, None when
\* that response has no such header.
C7_FailsIffNoCallAnswered ==
    HeaderAsked =>
        IF Answered
        THEN result.out =
                Return(IF result.arg[1] \in DOMAIN LastResponse.headers
                       THEN LastResponse.headers[result.arg[1]]
                       ELSE None)
        ELSE FailedWith(result.out, "TwythonError")

\* a header the last response did not carry was asked for, and None came back
C7_Witness ==
    /\ HeaderAsked
    /\ Answered
    /\ result.arg[1] \notin DOMAIN LastResponse.headers
    /\ result.out = Return(None)

-----------------------------------------------------------------------------
(* C8, C9, C10: the history of the generator *)

\* the tweets of a page search returned
PageTweets(content) ==
    IF content.statuses = Absent THEN <<>> ELSE content.statuses.l

RECURSIVE TweetsOf(_)
\* the tweets of a sequence of pages, in order
TweetsOf(pages) ==
    IF pages = <<>> THEN <<>>
    ELSE PageTweets(Head(pages)) \o TweetsOf(Tail(pages))

IsPrefix(s, t) == Len(s) <= Len(t) /\ SubSeq(t, 1, Len(s)) = s

\* C8: without a since_id of the caller, the search call for page k+1 is
\* made with since_id = int(id_str of the first status of page k) + 1.
C8_SinceIdFromPreviousPage ==
    ~gen.pinned =>
        \A k \in 1..(Len(gen.sent) - 1) :
            LET first == PageTweets(gen.pages[k])[1]
            IN  (first.id_str # Absent /\ IntOf(first.id_str).ok) =>
                    gen.sent[k + 1] = PInt(IntOf(first.id_str).n + 1)

\* C9 (state part): the generator has ended cleanly exactly when the last
\* page fetched has no statuses field or an empty one; it then raised no
\* error, and after an empty first page it has yielded nothing.
C9_EndedIffLastPageEmpty ==
    /\ gen.st = "done" <=>
          (gen.pages # <<>> /\ PageTweets(gen.pages[Len(gen.pages)]) = <<>>)
    /\ (gen.st = "done" /\ result.op = "next") => result.out = Stop
    /\ (gen.pages # <<>> /\ PageTweets(gen.pages[1]) = <<>>) => gen.yielded = <<>>

\* C9: the generator ends cleanly exactly on a page without statuses, and
\* once it has ended no step makes another search call or yields a tweet.
C9_EndsCleanlyOnEmptyPage ==
    /\ []C9_EndedIffLastPageEmpty
    /\ [][gen.st = "done" => gen' = gen]_vars

\* the generator ended on the page after a page of tweets
C9_Witness ==
    /\ gen.st = "done"
    /\ Len(gen.pages) = 2
    /\ result.op = "next"
    /\ result.out = Stop

\* C10: what the generator has yielded is the concatenation of the statuses
\* of the pages fetched, in fetch order: all of every page but the last one,
\* then the tweets of the last page up to the one just handed out; and all
\* of the last page too once the generator has gone on to another call.
C10_YieldsPagesInOrder ==
    /\ IsPrefix(gen.yielded, TweetsOf(gen.pages))
    /\ gen.pages # <<>> =>
          Len(gen.yielded) >= Len(TweetsOf(SubSeq(gen.pages, 1, Len(gen.pages) - 1)))
             + (IF PageTweets(gen.pages[Len(gen.pages)]) = <<>> THEN 0 ELSE 1)
    /\ (gen.st \in {"done", "failed"} \/ Len(gen.sent) > Len(gen.pages)) =>
          gen.yielded = TweetsOf(gen.pages)

\* two pages were fetched and the first tweet of the second has been yielded
C10_Witness ==
    /\ Len(gen.pages) = 2
    /\ Len(PageTweets(gen.pages[1])) = 2
    /\ Len(gen.yielded) = 3

-----------------------------------------------------------------------------
(* C11, C12: the last call of get_authentication_tokens the request-token *)
(* endpoint answered                                                       *)

TokensAnswered ==
    /\ handshake.answered # <<>>
    /\ handshake.answered[1].op = "get_authentication_tokens"

TokensArg == handshake.answered[1].arg

TokensStatus == handshake.answered[1].response.status_code

TokensOut == handshake.answered[1].out

\* the token mapping of the response
TokensSent == ParseQsl(handshake.answered[1].response.content)

ReturnsAuthUrl(out) ==
    out.kind = "return" /\ out.value.t = "mapping" /\ "auth_url" \in DOMAIN out.value.d

\* C11: on the response of the request-token endpoint, get_authentication_tokens
\* raises TwythonAuthError with code 401 on a 401, the plain TwythonError with
\* the status on any other status but 200, TwythonError on a 200 whose body
\* parses to an empty mapping, and on a 200 with a non-empty mapping it
\* returns that mapping plus auth_url; no auth_url after a status other than 200.
C11_RequestTokenOutcomes ==
    TokensAnswered =>
        /\ TokensStatus = 401 =>
              FailedWith(TokensOut, "TwythonAuthError") /\ TokensOut.code = PInt(401)
        /\ TokensStatus \notin {200, 401} =>
              FailedWith(TokensOut, "TwythonError") /\ TokensOut.code = PInt(TokensStatus)
        /\ (TokensStatus = 200 /\ TokensSent = EmptyMapping) =>
              FailedWith(TokensOut, "TwythonError")
        /\ (TokensStatus = 200 /\ TokensSent # EmptyMapping) =>
              /\ ReturnsAuthUrl(TokensOut)
              /\ DOMAIN TokensOut.value.d = DOMAIN TokensSent \cup {"auth_url"}
              /\ \A k \in DOMAIN TokensSent : TokensOut.value.d[k] = TokensSent[k]
        /\ TokensStatus # 200 => ~ReturnsAuthUrl(TokensOut)

-----------------------------------------------------------------------------
(* C12 *)

\* the query C12 names, as a set of pairs key, value
ClaimedQuery(callback_url, force_login, screen_name, tokens) ==
    { <<"oauth_token", tokens["oauth_token"]>> }
    \cup (IF force_login
          THEN { <<"force_login", PStr(<<"True">>)>>, <<"screen_name", screen_name>> }
          ELSE {})
    \cup (IF /\ callback_url # None
             /\ MapGet(tokens, "oauth_callback_confirmed") # PStr(<<"true">>)
          THEN { <<"oauth_callback", QuotePlus(callback_url)>> }
          ELSE {})

\* C12: the auth_url get_authentication_tokens returns for a 200 response
\* carrying a token is the authenticate endpoint with a query of oauth_token
\* (the token of the response), force_login and screen_name exactly when
\* force_login was asked for, and oauth_callback, with the callback URL the
\* caller passed, exactly when a callback was passed and the response does
\* not say oauth_callback_confirmed=true.
C12_AuthUrlQuery ==
    (TokensAnswered /\ TokensStatus = 200 /\ "oauth_token" \in DOMAIN TokensSent) =>
        /\ ReturnsAuthUrl(TokensOut)
        /\ TokensOut.value.d["auth_url"].base = AuthenticateUrl
        /\ LET query == TokensOut.value.d["auth_url"].query
           IN  {query[i] : i \in DOMAIN query} =
                   ClaimedQuery(TokensArg[1], TokensArg[2], TokensArg[3], TokensSent)

-----------------------------------------------------------------------------
(* C13 *)

\* how a session with this auth signs
SignerMode(auth) ==
    IF auth = None THEN "unsigned"
    ELSE IF auth.resource_owner_key = None /\ auth.resource_owner_secret = None
    THEN "app-only"
    ELSE "user"

\* the mode C13 names for the credentials of a client
ClaimedMode(c) ==
    LET app == c.app_key # None /\ c.app_secret # None
    IN  IF app /\ c.oauth_token # None /\ c.oauth_token_secret # None THEN "user"
        ELSE IF app /\ c.oauth_token = None /\ c.oauth_token_secret = None
        THEN "app-only"
        ELSE "unsigned"

\* C13 (state part): the session signs for the application alone exactly with
\* app key and secret and neither user value, for the user exactly with all
\* four credentials, and not at all with any other combination; a signer
\* holds the credentials of the client and no others.
C13_ModeOfCredentials ==
    /\ SignerMode(client.auth) = ClaimedMode(client)
    /\ client.auth # None =>
          /\ client.auth.client_key = client.app_key
          /\ client.auth.client_secret = client.app_secret
          /\ client.auth.resource_owner_key = client.oauth_token
          /\ client.auth.resource_owner_secret = client.oauth_token_secret

\* C13: the signer mode is that function of the four credentials, and no
\* operation changes the credentials or the signer after construction.
C13_SignerModeFixed ==
    /\ []C13_ModeOfCredentials
    /\ [][client' = client]_vars

\* a client made with key, secret and a token secret but no token has made
\* a request, unsigned
C13_Witness ==
    /\ client.app_key # None /\ client.app_secret # None
    /\ client.oauth_token = None /\ client.oauth_token_secret # None
    /\ client.auth = None
    /\ result.op = "request"

-----------------------------------------------------------------------------
(* C14 *)

BothDone == \A i \in ThreadIds : threads[i].pc = "done"

WasAnswered(i) == threads[i].response # <<>>

\* the record the call of thread i leaves when it runs alone
Alone(i) == Request_(threads[i].api_call, threads[i].response[1]).last_call

\* C14: once two concurrent calls have both finished, self._last_call is,
\* field for field, the record one of the two calls leaves when it runs
\* alone (the last writer wins, and no record mixes the two calls).
C14_LastWriterWins ==
    (BothDone /\ \E i \in ThreadIds : WasAnswered(i)) =>
        \E i \in ThreadIds : WasAnswered(i) /\ last_call = <<Alone(i)>>

-----------------------------------------------------------------------------
(* C15 *)

\* C15: a call answered with a status > 304 and a body that is JSON of any
\* shape fails with TwythonError or one of its subtypes, carrying a message
\* and the status code; no other exception leaves the call.
C15_TypedFailureForAnyShape ==
    (Answered /\ LastStatus > 304 /\ LastParses) =>
        /\ LastOut.kind = "raise"
        /\ LastOut.exc \in LibraryErrors
        /\ LastOut.msg # None
        /\ LastOut.code = PInt(LastStatus)

-----------------------------------------------------------------------------
(* C16 *)

-----------------------------------------------------------------------------
(* C17 *)

\* the last search call of the generator came back without a page
LastSearchFailed == Len(gen.pages) < Len(gen.sent)

\* C17: with a since_id of the caller, every search call of the generator
\* carries that since_id; and the sequence ends only where a search call
\* fails or answers with a page without statuses, never at the end of a page
\* of tweets.
C17_PinnedSinceIdOnEveryCall ==
    gen.pinned =>
        /\ \A k \in 1..Len(gen.sent) : gen.sent[k] = gen.given
        /\ gen.st \in {"done", "failed"} =>
              \/ LastSearchFailed
              \/ PageTweets(gen.pages[Len(gen.pages)]) = <<>>

\* the server answered the same page of tweets twice, and the third call
\* went out with the since_id of the caller
C17_Witness ==
    /\ gen.pinned
    /\ Len(gen.sent) = 3
    /\ gen.sent[3] = PInt(2)
    /\ Len(gen.pages) >= 2
    /\ gen.pages[1] = gen.pages[2]
    /\ PageTweets(gen.pages[1]) # <<>>

-----------------------------------------------------------------------------
(* C18 *)

\* C18 (state part): a generator nobody has asked for an element has made no
\* search call; and while it waits in a page, it has made no call beyond the
\* one for that page.
C18_NoCallAhead ==
    /\ gen.st \in {"none", "created"} => gen.sent = <<>>
    /\ gen.st = "suspended" => Len(gen.sent) = Len(gen.pages)

\* C18: a search call is made only in a step in which the consumer asks for
\* the next element, one call per step, and only when every tweet of every
\* page fetched so far has been handed out.
C18_FetchesOnDemand ==
    /\ []C18_NoCallAhead
    /\ [][Len(gen'.sent) > Len(gen.sent) =>
             /\ gen.st \in {"created", "suspended"}
             /\ result'.op = "next"
             /\ Len(gen'.sent) = Len(gen.sent) + 1
             /\ gen.yielded = TweetsOf(gen.pages)]_vars

\* the second call was made after both tweets of the first page, and its
\* first tweet is the third element handed out
C18_Witness ==
    /\ gen.st = "suspended"
    /\ Len(gen.sent) = 2
    /\ Len(PageTweets(gen.pages[1])) = 2
    /\ Len(gen.yielded) = 3
    /\ result.op = "next"
    /\ result.sends = 1

-----------------------------------------------------------------------------
(* C19 *)

\* int() has no value for the id of this status
NoIntegerId(tweet) ==
    \/ tweet.t # "dict"
    \/ tweet.id_str = Absent
    \/ ~IntOf(tweet.id_str).ok

\* C19: without a since_id of the caller, once a page of tweets is fetched
\* whose first status has no id that is an integer, no search call follows
\* it; the generator ends only after all tweets of the page are yielded,
\* and it ends by raising the TwythonError of pagination.
C19_PaginationErrorOnBadId ==
    ~gen.pinned =>
        \A k \in 1..Len(gen.pages) :
            (PageTweets(gen.pages[k]) # <<>> /\ NoIntegerId(PageTweets(gen.pages[k])[1])) =>
                /\ Len(gen.sent) = k
                /\ gen.st \in {"suspended", "failed"}
                /\ gen.st = "failed" => gen.yielded = TweetsOf(gen.pages)
                /\ (gen.st = "failed" /\ result.op = "next" /\ Failed(result.out)) =>
                      result.out = Raise("TwythonError", PageErrorMessage, None, None)

-----------------------------------------------------------------------------
(* C20 *)

\* C20 (state part): while no request has been answered the record is None
\* and get_lastfunction_header fails, whatever else the client has done.
C20_NoRecordWithoutAnswer ==
    ~Answered =>
        /\ last_call = <<>>
        /\ HeaderAsked => FailedWith(result.out, "TwythonError")

\* C20: self._last_call changes only in a step of request that made its one
\* transport call and got a response, and then to the record of that
\* response; get_lastfunction_header, the authorization flow,
\* construct_api_url and a request the transport did not answer leave it as
\* it was; and get_lastfunction_header asked twice in a row for the same
\* header gives the same value.
C20_WrittenOnlyByAnsweredRequest ==
    /\ []C20_NoRecordWithoutAnswer
    /\ [][last_call' # last_call =>
             /\ result'.op = "request"
             /\ result'.sends = 1
             /\ exchange'.answered # <<>>
             /\ result'.out = exchange'.answered[1].out
             /\ last_call'[1].status_code = exchange'.answered[1].response.status_code
             /\ last_call'[1].content = exchange'.answered[1].response.content]_vars
    /\ [][result'.op \in {"get_lastfunction_header", "get_authentication_tokens",
                          "get_authorized_tokens", "construct_api_url"} =>
             last_call' = last_call]_vars
    /\ [][(result'.op = "request" /\ result'.out = Escapes("ConnectionError")) =>
             last_call' = last_call]_vars
    /\ [][(HeaderAsked /\ result'.op = "get_lastfunction_header"
           /\ result'.arg = result.arg) => result'.out = result.out]_vars

\* the client has been through both steps of the authorization flow and a
\* request the transport did not answer, and get_lastfunction_header fails
C20_Witness ==
    /\ handshake.answered # <<>>
    /\ handshake.answered[1].op = "get_authorized_tokens"
    /\ handshake.answered[1].out.kind = "return"
    /\ exchange.made
    /\ last_call = <<>>
    /\ HeaderAsked
    /\ FailedWith(result.out, "TwythonError")

====
